---- MODULE Spec2Model ----
(***************************************************************************)
(* A model of scrape_cnn_lite.py: the author normaliser, the link filter,  *)
(* the field extractor and the crawl loop with its dedup index.            *)
(*                                                                         *)
(* Representation.  A Python str that the code takes apart character by    *)
(* character (a byline, a URL) is a sequence of one-character strings.  A  *)
(* str the code only trims, tests for emptiness, joins and hashes (a       *)
(* title, a paragraph) is a TLA+ string; a body text is the sequence of    *)
(* the pieces joined into it.                                              *)
(***************************************************************************)
EXTENDS Integers, Sequences, FiniteSets, TLC

VARIABLES
    \* the author normaliser
    author_text,            \* the byline handed to split_author_text
    authors,                \* split_author_text: the names before post-processing
    cleaned_authors,        \* split_author_text: the returned names
    apc,                    \* "input" before the call, "done" after
    \* the link filter
    a_tags,                 \* the anchors of the document, in document order
    link_base,              \* the URL of the document
    links,                  \* what extract_article_links returned
    lpc,                    \* "input" before the call, "done" after
    \* the field extractor
    request,                \* [url, response, now] of a call of extract_article_data
    extracted,              \* what it returned: <<>> for None, else <<article>>
    epc,                    \* "input" before the call, "done" after
    \* the crawl: main()
    disk,                   \* cnn-lite-articles: file name -> file content
    existing_text_hashes,   \* the dedup index of the run
    pc,                     \* where main() is: "seed", "home", "crawl", "done", "crashed"
    pending,                \* load_existing_text_hashes: the files still to read
    globbed,                \* the files output_dir.glob found in this run
    n_links,                \* len(article_links[:MAX_ARTICLES_PER_RUN])
    idx,                    \* the position of the loop in the links, from 1
    successful_articles,
    run,                    \* the number of this run of the program
    \* what has happened (history)
    seed_added,             \* file name -> the hashes this run's seeding added for it
    seed_logged,            \* the files this run's seeding logged as unreadable
    save_calls,             \* this run's calls of save_article: [hash, raised]
    last,                   \* the latest iteration of the loop
    persisted               \* <<run, text>> of every save_article that returned

avars == <<author_text, authors, cleaned_authors, apc>>
cvars == <<disk, existing_text_hashes, pc, pending, globbed, n_links, idx,
           successful_articles, run, seed_added, seed_logged, save_calls,
           last, persisted>>

lvars == <<a_tags, link_base, links, lpc>>
evars == <<request, extracted, epc>>

vars == <<avars, lvars, evars, cvars>>

----------------------------------------------------------------------------
(* Characters and the str methods the code uses.                           *)

Whitespace == {" ", "\t", "\n"}

UpperChars == <<"A","B","C","D","E","F","G","H","I","J","K","L","M",
                "N","O","P","Q","R","S","T","U","V","W","X","Y","Z">>
LowerChars == <<"a","b","c","d","e","f","g","h","i","j","k","l","m",
                "n","o","p","q","r","s","t","u","v","w","x","y","z">>

Letters == { UpperChars[i] : i \in 1..26 } \cup { LowerChars[i] : i \in 1..26 }

LowerOf ==
    [c \in Letters |->
        IF \E i \in 1..26 : UpperChars[i] = c
        THEN LowerChars[CHOOSE i \in 1..26 : UpperChars[i] = c] ELSE c]
UpperOf ==
    [c \in Letters |->
        IF \E i \in 1..26 : LowerChars[i] = c
        THEN UpperChars[CHOOSE i \in 1..26 : LowerChars[i] = c] ELSE c]

\* str.lower and str.upper of one character
Lower(c) == IF c \in Letters THEN LowerOf[c] ELSE c
Upper(c) == IF c \in Letters THEN UpperOf[c] ELSE c

StrLower(s) == [i \in 1..Len(s) |-> Lower(s[i])]
StrUpper(s) == [i \in 1..Len(s) |-> Upper(s[i])]

RECURSIVE LStrip(_)
LStrip(s) ==
    IF s # <<>> /\ Head(s) \in Whitespace THEN LStrip(Tail(s)) ELSE s

RECURSIVE RStripChars(_, _)
RStripChars(s, chars) ==
    IF s # <<>> /\ s[Len(s)] \in chars
    THEN RStripChars(SubSeq(s, 1, Len(s) - 1), chars)
    ELSE s

Strip(s) == RStripChars(LStrip(s), Whitespace)

\* The first index >= i of s that holds no whitespace, Len(s) + 1 if none.
RECURSIVE SkipSpace(_, _)
SkipSpace(s, i) ==
    IF i <= Len(s) /\ s[i] \in Whitespace THEN SkipSpace(s, i + 1) ELSE i

\* s.split(sep) for a one-character sep: the pieces between the separators.
RECURSIVE SplitChar(_, _)
SplitChar(s, sep) ==
    IF \E i \in 1..Len(s) : s[i] = sep
    THEN LET i == CHOOSE k \in 1..Len(s) :
                     s[k] = sep /\ \A j \in 1..(k - 1) : s[j] # sep
         IN  <<SubSeq(s, 1, i - 1)>> \o SplitChar(SubSeq(s, i + 1, Len(s)), sep)
    ELSE <<s>>

\* [f(x) for x in xs if x]: the non-empty members of xs, in order.
RECURSIVE NonEmpty(_)
NonEmpty(xs) ==
    IF xs = <<>> THEN <<>>
    ELSE IF Head(xs) = <<>> THEN NonEmpty(Tail(xs))
    ELSE <<Head(xs)>> \o NonEmpty(Tail(xs))

----------------------------------------------------------------------------
(* split_author_text                                                       *)

AUTHOR_SUFFIXES ==
    { <<"j","r">>, <<"s","r">>, <<"i","i">>, <<"i","i","i">>, <<"i","v">> }

CNN_AUTHOR_TOKEN == <<"C","N","N">>

\* re.sub(r'^\s*by\s+', '', author_text, flags=re.IGNORECASE): the match is
\* the leading whitespace, "by" in any case, and all the whitespace after
\* it (at least one character); without a match the text is unchanged.
StripByPrefix(s) ==
    LET i == SkipSpace(s, 1)
    IN  IF /\ i + 2 <= Len(s)
           /\ Lower(s[i]) = "b"
           /\ Lower(s[i + 1]) = "y"
           /\ s[i + 2] \in Whitespace
        THEN SubSeq(s, SkipSpace(s, i + 2), Len(s))
        ELSE s

\* r'\s+(?:and|&)\s+' matched at index i of s: the index after the match,
\* 0 when there is no match at i.  The pattern is compiled without
\* re.IGNORECASE: only the lower-case word matches.
ConjunctionEnd(s, i) ==
    IF ~(i <= Len(s) /\ s[i] \in Whitespace) THEN 0
    ELSE LET j == SkipSpace(s, i)
             k == IF j + 2 <= Len(s) /\ SubSeq(s, j, j + 2) = <<"a","n","d">>
                  THEN j + 3
                  ELSE IF j <= Len(s) /\ s[j] = "&" THEN j + 1
                  ELSE 0
         IN  IF k # 0 /\ k <= Len(s) /\ s[k] \in Whitespace
             THEN SkipSpace(s, k)
             ELSE 0

\* bool(re.search(r'\s+(?:and|&)\s+', cleaned))
HasConjunction(s) == \E i \in 1..Len(s) : ConjunctionEnd(s, i) # 0

\* re.split(r'\s+(?:and|&)\s+', cleaned): the pieces between the leftmost
\* non-overlapping matches; start is where the current piece begins.
RECURSIVE SplitConjunctionFrom(_, _, _)
SplitConjunctionFrom(s, start, i) ==
    IF i > Len(s) THEN <<SubSeq(s, start, Len(s))>>
    ELSE IF ConjunctionEnd(s, i) # 0
    THEN <<SubSeq(s, start, i - 1)>>
         \o SplitConjunctionFrom(s, ConjunctionEnd(s, i), ConjunctionEnd(s, i))
    ELSE SplitConjunctionFrom(s, start, i + 1)

SplitConjunction(s) == SplitConjunctionFrom(s, 1, 1)

\* [entry.strip() for entry in part.split(',') if entry.strip()]
CommaParts(part) ==
    LET pieces == SplitChar(part, ",")
    IN  NonEmpty([i \in 1..Len(pieces) |-> Strip(pieces[i])])

IsSuffix_CaseSensitive(entry) == RStripChars(entry, {"."}) \in AUTHOR_SUFFIXES

\* entry.lower().rstrip('.') in AUTHOR_SUFFIXES
IsSuffix(entry) == RStripChars(StrLower(entry), {"."}) \in AUTHOR_SUFFIXES

\* The loop over comma_parts[1:] and the append after it: current is the
\* name being accumulated, out what this part has emitted so far.
RECURSIVE WalkEntries(_, _, _)
WalkEntries(current, entries, out) ==
    IF entries = <<>>
    THEN IF current # <<>> THEN Append(out, current) ELSE out
    ELSE LET entry == Head(entries)
         IN  IF IsSuffix(entry) /\ current # <<>>
             THEN WalkEntries(current \o <<",", " ">> \o entry, Tail(entries), out)
             ELSE WalkEntries(entry, Tail(entries),
                              IF current # <<>> THEN Append(out, current) ELSE out)

PartAuthors_AlwaysWalk(part, has_conjunction, n_parts) ==
    LET comma_parts == CommaParts(part)
    IN  IF comma_parts = <<>> THEN <<>>
        ELSE WalkEntries(comma_parts[1], Tail(comma_parts), <<>>)

\* One iteration of `for part in parts`: what the part appends to authors.
PartAuthors(part, has_conjunction, n_parts) ==
    LET comma_parts == CommaParts(part)
        appears_to_be_last_first_format ==
            ~has_conjunction /\ n_parts = 1 /\ Len(comma_parts) = 2
    IN  IF comma_parts = <<>> THEN <<>>
        ELSE IF appears_to_be_last_first_format
        THEN << comma_parts[1] \o <<",", " ">> \o comma_parts[2] >>
        ELSE WalkEntries(comma_parts[1], Tail(comma_parts), <<>>)

RECURSIVE PartsAuthors(_, _, _)
PartsAuthors(parts, has_conjunction, n_parts) ==
    IF parts = <<>> THEN <<>>
    ELSE PartAuthors(Head(parts), has_conjunction, n_parts)
         \o PartsAuthors(Tail(parts), has_conjunction, n_parts)

\* The value of `authors` when the loop over the parts has ended.
RawAuthors(text) ==
    LET cleaned == Strip(StripByPrefix(text))
    IN  IF text = <<>> \/ cleaned = <<>> THEN <<>>
        ELSE LET parts == SplitConjunction(cleaned)
             IN  PartsAuthors(parts, HasConjunction(cleaned), Len(parts))

CnnSuffixAt_CaseSensitive(s, i) ==
    /\ s[i] = ","
    /\ LET j == SkipSpace(s, i + 1)
       IN  /\ j + 2 <= Len(s)
           /\ SubSeq(s, j, j + 2) = CNN_AUTHOR_TOKEN
           /\ SkipSpace(s, j + 3) = Len(s) + 1

\* CNN_SUFFIX_PATTERN.sub('', author): r',\s*CNN\s*$' in any case, removed
\* from the leftmost comma that the pattern matches at.
CnnSuffixAt(s, i) ==
    /\ s[i] = ","
    /\ LET j == SkipSpace(s, i + 1)
       IN  /\ j + 2 <= Len(s)
           /\ StrUpper(SubSeq(s, j, j + 2)) = CNN_AUTHOR_TOKEN
           /\ SkipSpace(s, j + 3) = Len(s) + 1

StripCnnSuffix(s) ==
    IF \E i \in 1..Len(s) : CnnSuffixAt(s, i)
    THEN LET i == CHOOSE k \in 1..Len(s) :
                     CnnSuffixAt(s, k) /\ \A j \in 1..(k - 1) : ~CnnSuffixAt(s, j)
         IN  SubSeq(s, 1, i - 1)
    ELSE s

\* The loop building cleaned_authors.
RECURSIVE CleanAuthors(_)
CleanAuthors(names) ==
    IF names = <<>> THEN <<>>
    ELSE LET normalized_author == Strip(StripCnnSuffix(Head(names)))
         IN  IF normalized_author # <<>>
                /\ StrUpper(normalized_author) # CNN_AUTHOR_TOKEN
             THEN <<normalized_author>> \o CleanAuthors(Tail(names))
             ELSE CleanAuthors(Tail(names))

split_author_text(text) == CleanAuthors(RawAuthors(text))

----------------------------------------------------------------------------
(* get_article_hash                                                        *)

\* The characters of the model's texts; Ord(c) stands for the UTF-8 code of c.
Alphabet ==
    UpperChars \o LowerChars
    \o <<" ", "\n", "\t", ".", ",", "&", ":", "/", "-", "0", "1", "2", "3">>

OrdOf ==
    [c \in { Alphabet[i] : i \in 1..Len(Alphabet) } |->
        CHOOSE i \in 1..Len(Alphabet) : Alphabet[i] = c]
Ord(c) == OrdOf[c]

\* The digest is a number below 2^DigestBits.
DigestBits == 16

RECURSIVE Digest(_, _)
Digest(content, h) ==
    IF content = <<>> THEN h
    ELSE Digest(Tail(content), (h * 131 + Ord(Head(content))) % (2 ^ DigestBits))

\* hashlib.sha256(content.encode('utf-8')).hexdigest(): a deterministic
\* function of the characters of content and of nothing else.  SHA-256 is
\* stood for by a polynomial digest of DigestBits bits.
get_article_hash(content) == Digest(content, 7)

----------------------------------------------------------------------------
(* extract_article_links                                                   *)

\* A URL is the sequence of its "/" characters and of the runs of other
\* characters between them: https://www.cnn.com/terms is
\* <<"https:", "/", "/", "www.cnn.com", "/", "terms">>.
U_Home     == <<"https:", "/", "/", "www.cnn.com", "/">>
U_Terms    == <<"https:", "/", "/", "www.cnn.com", "/", "terms">>
U_Privacy  == <<"https:", "/", "/", "www.cnn.com", "/", "privacy">>
U_AdChoice == <<"https:", "/", "/", "www.cnn.com", "/", "ad-choices">>

URL_BLOCK_LIST == {U_Home, U_Terms, U_Privacy, U_AdChoice}

\* {url.rstrip('/') for url in URL_BLOCK_LIST}
NORMALIZED_URL_BLOCK_LIST == { RStripChars(url, {"/"}) : url \in URL_BLOCK_LIST }

Schemes == {"https:", "http:"}

\* urllib.parse.urljoin(base_url, href) for the references of the model: an
\* empty reference is the base, a reference with a scheme is itself, a
\* reference that starts with "//" takes the scheme of the base, and one
\* that starts with a single "/" replaces the path of the base.  base_url
\* is absolute: scheme, "/", "/", host, then the path.
urljoin(base_url, href) ==
    IF href = <<>> THEN base_url
    ELSE IF Head(href) \in Schemes THEN href
    ELSE IF Len(href) >= 2 /\ href[1] = "/" /\ href[2] = "/"
    THEN <<Head(base_url)>> \o href
    ELSE IF href[1] = "/" THEN SubSeq(base_url, 1, 4) \o href
    ELSE base_url

IsBlocked_NoStrip(absolute_url) == absolute_url \in URL_BLOCK_LIST

\* absolute_url.rstrip('/') in NORMALIZED_URL_BLOCK_LIST
IsBlocked(absolute_url) ==
    RStripChars(absolute_url, {"/"}) \in NORMALIZED_URL_BLOCK_LIST

\* An anchor is [has_href, href, text]: soup.find_all('a', href=True) keeps
\* the anchors that carry the attribute, in document order.
RECURSIVE extract_article_links(_, _)
extract_article_links(anchors, base_url) ==
    IF anchors = <<>> THEN <<>>
    ELSE LET a_tag == Head(anchors)
             absolute_url == urljoin(base_url, a_tag.href)
             rest == extract_article_links(Tail(anchors), base_url)
         IN  IF ~a_tag.has_href THEN rest
             ELSE IF IsBlocked(absolute_url) THEN rest
             ELSE <<[url |-> absolute_url, text |-> Strip(a_tag.text)]>> \o rest

----------------------------------------------------------------------------
(* extract_article_data                                                    *)

DEFAULT_TITLE ==
    <<"N","o"," ","t","i","t","l","e"," ","f","o","u","n","d">>
DEFAULT_TEXT ==
    <<"N","o"," ","t","e","x","t"," ","f","o","u","n","d">>

(* A parsed document is what the selectors of extract_article_data find in *)
(* it:                                                                     *)
(*   title_elems[i]  soup.select_one(title_selectors[i]): [found, text]    *)
(*   date_elems[i]   soup.select_one(date_selectors[i]):                   *)
(*                   [found, datetime, text], datetime <<>> when the       *)
(*                   attribute is missing or empty                         *)
(*   author_elems[i] soup.select(author_selectors[i]): the elements'       *)
(*                   " ".join(stripped_strings), in document order         *)
(*   text_elems[i]   soup.select_one(text_selectors[i]):                   *)
(*                   [found, paragraphs], the texts of find_all('p')       *)
(*   paragraphs      soup.find_all('p') of the whole document              *)
(*   anchors         soup.find_all('a') of the whole document              *)
(* An element's text is the raw text; get_text(strip=True) is Strip.       *)

\* The loop over title_selectors: the first selector that finds an element
\* decides, whatever the element's text.  <<>> stands for None and for ''.
RECURSIVE FirstTitle(_)
FirstTitle(elems) ==
    IF elems = <<>> THEN <<>>
    ELSE IF Head(elems).found THEN Strip(Head(elems).text)
    ELSE FirstTitle(Tail(elems))

\* The loop over date_selectors.
RECURSIVE FirstDate(_)
FirstDate(elems) ==
    IF elems = <<>> THEN <<>>
    ELSE IF Head(elems).found
    THEN IF Head(elems).datetime # <<>> THEN Head(elems).datetime
         ELSE Strip(Head(elems).text)
    ELSE FirstDate(Tail(elems))

\* names appended to seen, skipping the ones already there.
RECURSIVE AppendUnique(_, _)
AppendUnique(seen, names) ==
    IF names = <<>> THEN seen
    ELSE IF \E i \in 1..Len(seen) : seen[i] = Head(names)
    THEN AppendUnique(seen, Tail(names))
    ELSE AppendUnique(Append(seen, Head(names)), Tail(names))

\* The loop over the elements one author selector matched.
RECURSIVE ElemsAuthors(_, _)
ElemsAuthors(seen, author_elems) ==
    IF author_elems = <<>> THEN seen
    ELSE ElemsAuthors(AppendUnique(seen, split_author_text(Head(author_elems))),
                      Tail(author_elems))

\* The loop over author_selectors: it ends at the first selector after
\* which authors is not empty.
RECURSIVE FirstAuthors(_, _)
FirstAuthors(seen, selectors) ==
    IF selectors = <<>> THEN seen
    ELSE LET found == ElemsAuthors(seen, Head(selectors))
         IN  IF found # <<>> THEN found ELSE FirstAuthors(found, Tail(selectors))

\* '\n\n'.join([p.get_text(strip=True) for p in paragraphs
\*              if p.get_text(strip=True)])
RECURSIVE JoinParagraphs(_)
JoinParagraphs(paragraphs) ==
    LET kept == NonEmpty([i \in 1..Len(paragraphs) |-> Strip(paragraphs[i])])
    IN  IF kept = <<>> THEN <<>>
        ELSE IF Len(kept) = 1 THEN kept[1]
        ELSE kept[1] \o <<"\n", "\n">> \o JoinParagraphs(Tail(kept))

\* The loop over text_selectors: the first selector whose element holds a
\* paragraph decides, whatever the paragraphs' texts.
RECURSIVE FirstText(_)
FirstText(elems) ==
    IF elems = <<>> THEN <<>>
    ELSE IF Head(elems).found /\ Head(elems).paragraphs # <<>>
    THEN JoinParagraphs(Head(elems).paragraphs)
    ELSE FirstText(Tail(elems))

\* The text before the default: the selectors' text, else all paragraphs.
BodyText(doc) ==
    LET text == FirstText(doc.text_elems)
    IN  IF text = <<>> THEN JoinParagraphs(doc.paragraphs) ELSE text

\* text_value = text or DEFAULT_TEXT
TextValue(text) == IF text = <<>> THEN DEFAULT_TEXT ELSE text

ArticleHash_TitleAndText(title_value, text_value) ==
    get_article_hash(title_value \o text_value)

\* article_hash = get_article_hash(text_value)
ArticleHash(title_value, text_value) == get_article_hash(text_value)

\* A response is [ok, doc]: ok is FALSE when session.get or
\* raise_for_status raises.  The except clause catches every Exception and
\* returns None: the result is <<>> for None and <<article>> otherwise.
extract_article_data(article_url, response, now) ==
    IF ~response.ok THEN <<>>
    ELSE LET soup == response.doc
             title == FirstTitle(soup.title_elems)
             date == FirstDate(soup.date_elems)
             title_value == IF title = <<>> THEN DEFAULT_TITLE ELSE title
             text_value == TextValue(BodyText(soup))
         IN  << [ url |-> article_url,
                  title |-> title_value,
                  date |-> IF date = <<>> THEN now ELSE date,
                  authors |-> FirstAuthors(<<>>, soup.author_elems),
                  text |-> text_value,
                  links |-> extract_article_links(soup.anchors, article_url),
                  hash |-> ArticleHash(title_value, text_value),
                  scraped_at |-> now ] >>

----------------------------------------------------------------------------
(* Documents.                                                              *)

NoElem == [found |-> FALSE, text |-> <<>>]
NoDateElem == [found |-> FALSE, datetime |-> <<>>, text |-> <<>>]
NoTextElem == [found |-> FALSE, paragraphs |-> <<>>]

TextElem(paragraphs) == [found |-> TRUE, paragraphs |-> paragraphs]
TitleElem(text) == [found |-> TRUE, text |-> text]

P_One == <<"O","n","e",".">>
P_Two == <<" ","T","w","o","."," ">>
S_Title == <<"S","a","m","p","l","e">>
S_Other == <<" ","O","t","h","e","r">>
B_Jane == <<"B","y"," ","J","a","n","e"," ","D","o","e">>
NowStamp == <<"2","0","2","6","-","1","1","-","0","1">>
ThenStamp == <<"2","0","2","6","-","1","1","-","0","2">>

\* <h1>title</h1>, the bylines under class "author", <article> holding the
\* paragraphs, and nothing else.
ArticlePage(title, bylines, paragraphs) ==
    [ title_elems  |-> <<TitleElem(title), NoElem, NoElem, NoElem>>,
      date_elems   |-> <<NoDateElem, NoDateElem, NoDateElem, NoDateElem>>,
      author_elems |-> <<bylines, bylines, <<>>, <<>>>>,
      text_elems   |-> <<TextElem(paragraphs), NoTextElem, NoTextElem,
                         NoTextElem, NoTextElem>>,
      paragraphs   |-> paragraphs,
      anchors      |-> <<>> ]

Failed == [ok |-> FALSE, doc |-> ArticlePage(<<>>, <<>>, <<>>)]
Fetched(doc) == [ok |-> TRUE, doc |-> doc]

\* What session.get may answer for an article URL of the crawl: a failure,
\* an article, the same body under another title and without a byline, and
\* another article.
CrawlResponses ==
    { Failed,
      Fetched(ArticlePage(S_Title, <<B_Jane>>, <<P_One>>)),
      Fetched(ArticlePage(S_Other, <<>>, <<P_One>>)),
      Fetched(ArticlePage(S_Title, <<B_Jane>>, <<P_One, P_Two>>)) }

\* The article URLs the homepage may list, in order.
ArticleUrls ==
    << <<"https:", "/", "/", "lite.cnn.com", "/", "2026", "/", "a">>,
       <<"https:", "/", "/", "lite.cnn.com", "/", "2026", "/", "b">>,
       <<"https:", "/", "/", "lite.cnn.com", "/", "2026", "/", "c">>,
       <<"https:", "/", "/", "lite.cnn.com", "/", "2026", "/", "d">>,
       <<"https:", "/", "/", "lite.cnn.com", "/", "2026", "/", "e">> >>

----------------------------------------------------------------------------
(* The persisted records.                                                  *)

\* A file of the output directory.  kind: "none" (no such file),
\* "unreadable" (open raises OSError), "malformed" (json.load raises
\* JSONDecodeError: no JSON, or a file cut short), "nonobject" (JSON, but
\* no object) and "object".  Of an object the fields the seeding reads:
\*   hash_tag    "absent", "empty" (null or ''), "str"; hash the digest
\*   authors_tag "absent", "null", "list"
\*   text_tag    "absent", "str", "nonstr" (a number, null, a list)
\* EmptyHash is the hash field of a record whose hash is '': no digest.
EmptyHash == 0 - 1

File(kind) ==
    [ kind |-> kind, hash_tag |-> "absent", hash |-> EmptyHash,
      authors_tag |-> "absent", authors |-> <<>>,
      text_tag |-> "absent", text |-> <<>> ]

NoFile == File("none")

JsonObject(hash_tag, hash, authors_tag, text_tag, text) ==
    [ kind |-> "object", hash_tag |-> hash_tag, hash |-> hash,
      authors_tag |-> authors_tag, authors |-> <<>>,
      text_tag |-> text_tag, text |-> text ]

ArticleRecord_NoAuthors(article) ==
    [ kind |-> "object", hash_tag |-> "str", hash |-> article.hash,
      authors_tag |-> "absent", authors |-> <<>>,
      text_tag |-> "str", text |-> article.text ]

\* json.dump(article_data, f): the record of an article.
ArticleRecord(article) ==
    [ kind |-> "object", hash_tag |-> "str", hash |-> article.hash,
      authors_tag |-> "list", authors |-> article.authors,
      text_tag |-> "str", text |-> article.text ]

\* f"{article_data['hash']}.json"
FileName(hash) == <<"sha256", hash>>

\* How a call of save_article ends: it returns; open raises (nothing is
\* written); json.dump raises (the file is cut short); print raises (the
\* file is complete).
SaveOutcomes == {"returns", "open_raises", "dump_raises", "print_raises"}

\* save_article(article_data, output_dir): the directory afterwards and
\* whether the call raised.
save_article(article_data, d, outcome) ==
    IF article_data = <<>> THEN [disk |-> d, raised |-> FALSE]
    ELSE LET filepath == FileName(article_data[1].hash)
         IN  CASE outcome = "returns" ->
                    [ disk |-> [d EXCEPT ![filepath] = ArticleRecord(article_data[1])],
                      raised |-> FALSE ]
               [] outcome = "open_raises" ->
                    [ disk |-> d, raised |-> TRUE ]
               [] outcome = "dump_raises" ->
                    [ disk |-> [d EXCEPT ![filepath] = File("malformed")],
                      raised |-> TRUE ]
               [] outcome = "print_raises" ->
                    [ disk |-> [d EXCEPT ![filepath] = ArticleRecord(article_data[1])],
                      raised |-> TRUE ]

UsesStoredHash_AnyAuthors(data) == data.hash_tag = "str"

\* data.get('hash') and has_authors_field
UsesStoredHash(data) ==
    LET has_authors_field == data.authors_tag \notin {"absent", "null"}
    IN  data.hash_tag = "str" /\ has_authors_field

\* One pass of the loop of load_existing_text_hashes over a file: "add" the
\* hash to the set, "log" the error the except clause catches (OSError,
\* json.JSONDecodeError), or "raise" what it does not catch: data.get of a
\* value that is no dict and text_value.encode of a value that is no str
\* raise AttributeError.
LoadRecord(data) ==
    CASE data.kind \in {"unreadable", "malformed"} ->
            [effect |-> "log", hash |-> EmptyHash]
      [] data.kind = "nonobject" ->
            [effect |-> "raise", hash |-> EmptyHash]
      [] data.kind = "object" ->
            IF UsesStoredHash(data)
            THEN [effect |-> "add", hash |-> data.hash]
            ELSE IF data.text_tag = "nonstr"
            THEN [effect |-> "raise", hash |-> EmptyHash]
            ELSE [effect |-> "add",
                  hash |-> get_article_hash(
                      IF data.text_tag = "absent" THEN <<>> ELSE data.text)]

----------------------------------------------------------------------------
(* main                                                                    *)

MAX_ARTICLES_PER_RUN == 110

MaxLinks == 3      \* the homepage lists at most MaxLinks article links
MaxRuns == 2       \* the program is run at most MaxRuns times

Min(a, b) == IF a <= b THEN a ELSE b

\* extract_article_data(article_url, session) of the crawl, for the link at
\* each position and each answer of the site.
Extracted ==
    [i \in 1..Len(ArticleUrls), r \in CrawlResponses |->
        extract_article_data(ArticleUrls[i], r, NowStamp)]

\* The digests of the articles the crawl can extract.
CrawlHashes ==
    { Extracted[1, r][1].hash : r \in { x \in CrawlResponses : x.ok } }

\* A digest stored in a record that is the digest of no text of the model.
StoredHash == CHOOSE h \in 0..(2 ^ DigestBits - 1) : h \notin CrawlHashes

LegacyName == <<"legacy", 0>>
StoredName == <<"stored", 0>>
FileNames == {LegacyName, StoredName} \cup { FileName(h) : h \in CrawlHashes }

\* What legacy.json may hold when the program is first run: nothing, a file
\* that cannot be read or parsed, or any object over the tags.
LegacyFiles ==
    { NoFile, File("unreadable"), File("malformed"), File("nonobject") }
    \cup { JsonObject(ht, IF ht = "str" THEN StoredHash ELSE EmptyHash, at, tt,
                      IF tt = "str" THEN P_One ELSE <<>>) :
             ht \in {"absent", "empty", "str"},
             at \in {"absent", "null", "list"},
             tt \in {"absent", "str", "nonstr"} }

\* What stored.json may hold: nothing, a file that cannot be read, a record
\* of the current schema, or a record of the legacy schema.
StoredFiles ==
    { NoFile, File("unreadable"),
      JsonObject("str", StoredHash, "list", "str", P_Two),
      JsonObject("absent", EmptyHash, "absent", "str", P_Two) }

\* The directories the seeding is run on.
SeedDisks ==
    { [f \in FileNames |->
          IF f = LegacyName THEN l ELSE IF f = StoredName THEN s ELSE NoFile] :
      l \in LegacyFiles, s \in StoredFiles }

\* The directories the first run of the crawl finds: empty, or legacy.json
\* alone, holding a legacy record of the text of an article, a record that
\* stores another hash, a file cut short, or no object.
CrawlDisks ==
    { [f \in FileNames |-> IF f = LegacyName THEN l ELSE NoFile] :
      l \in { NoFile,
              JsonObject("absent", EmptyHash, "absent", "str", P_One),
              JsonObject("str", StoredHash, "list", "str", P_One),
              File("malformed"),
              File("nonobject") } }

NoIteration ==
    [ step |-> "none", ok |-> FALSE, hash |-> EmptyHash, text |-> <<>>,
      was_known |-> FALSE, save_called |-> FALSE, save_raised |-> FALSE,
      changed |-> FALSE ]

\* output_dir.glob('*.json')
Glob(d) == { f \in FileNames : d[f].kind # "none" }

\* The start of a run over the directory d: main() up to the first pass of
\* the loop of load_existing_text_hashes.
StartRun(d) ==
    /\ existing_text_hashes' = {}
    /\ pc' = "seed"
    /\ pending' = Glob(d)
    /\ globbed' = Glob(d)
    /\ n_links' = 0
    /\ idx' = 1
    /\ successful_articles' = 0
    /\ seed_added' = [f \in FileNames |-> <<>>]
    /\ seed_logged' = {}
    /\ save_calls' = <<>>
    /\ last' = NoIteration

MainInit(disks, at) ==
    /\ disk \in disks
    /\ existing_text_hashes = {}
    /\ pc = at
    /\ pending = Glob(disk)
    /\ globbed = Glob(disk)
    /\ n_links = 0
    /\ idx = 1
    /\ successful_articles = 0
    /\ run = 1
    /\ seed_added = [f \in FileNames |-> <<>>]
    /\ seed_logged = {}
    /\ save_calls = <<>>
    /\ last = NoIteration
    /\ persisted = {}

\* load_existing_text_hashes: one pass of the loop, over json_file.  The
\* order of glob is the file system's.  An exception the except clause
\* does not catch leaves load_existing_text_hashes and main.
SeedFile ==
    /\ pc = "seed"
    /\ \E json_file \in pending :
         LET r == LoadRecord(disk[json_file])
         IN  /\ pending' = pending \ {json_file}
             /\ existing_text_hashes' =
                    IF r.effect = "add" THEN existing_text_hashes \cup {r.hash}
                    ELSE existing_text_hashes
             /\ seed_added' =
                    IF r.effect = "add"
                    THEN [seed_added EXCEPT ![json_file] = <<r.hash>>]
                    ELSE seed_added
             /\ seed_logged' =
                    IF r.effect = "log" THEN seed_logged \cup {json_file}
                    ELSE seed_logged
             /\ pc' = IF r.effect = "raise" THEN "crashed" ELSE "seed"
    /\ UNCHANGED <<disk, globbed, n_links, idx, successful_articles, run,
                   save_calls, last, persisted>>
    /\ UNCHANGED <<avars, lvars, evars>>

\* load_existing_text_hashes returns existing_hashes.
SeedReturn ==
    /\ pc = "seed"
    /\ pending = {}
    /\ pc' = "home"
    /\ UNCHANGED <<disk, existing_text_hashes, pending, globbed, n_links, idx,
                   successful_articles, run, seed_added, seed_logged,
                   save_calls, last, persisted>>
    /\ UNCHANGED <<avars, lvars, evars>>

\* get_article_links_from_homepage finds n links; without any, main returns.
Homepage ==
    /\ pc = "home"
    /\ \E n \in 0..MaxLinks :
         /\ n_links' = Min(n, MAX_ARTICLES_PER_RUN)
         /\ pc' = IF n = 0 THEN "done" ELSE "crawl"
    /\ UNCHANGED <<disk, existing_text_hashes, pending, globbed, idx,
                   successful_articles, run, seed_added, seed_logged,
                   save_calls, last, persisted>>
    /\ UNCHANGED <<avars, lvars, evars>>

IsDuplicate_Never(hash, hashes) == FALSE

\* article_data['hash'] in existing_text_hashes
IsDuplicate(hash, hashes) == hash \in hashes

HashesAfterSave_Never(hashes, hash, raised) == hashes
HashesAfterSave_Always(hashes, hash, raised) == hashes \cup {hash}

\* existing_text_hashes after save_article: the add is the statement after
\* the call, which an exception skips.
HashesAfterSave(hashes, hash, raised) ==
    IF raised THEN hashes ELSE hashes \cup {hash}

AfterIteration_StopOnNone(article_data, raised) ==
    IF article_data = <<>> THEN "done" ELSE "crawl"

\* Where main is after a pass of the loop: a pass without an article and a
\* pass whose try block raised (the except clause catches every Exception
\* and continues) both go on to the next URL.
AfterIteration(article_data, raised) == "crawl"

\* Whether the step changes the directory or the index.
Changed ==
    disk' # disk \/ existing_text_hashes' # existing_text_hashes

\* One pass of the loop of main over article_links[idx]: the response is
\* what the site answers, outcome how save_article ends if it is called.
Iteration ==
    /\ pc = "crawl"
    /\ idx <= n_links
    /\ \E response \in CrawlResponses, outcome \in SaveOutcomes :
         LET article_data == Extracted[idx, response]
             is_new == /\ article_data # <<>>
                       /\ ~IsDuplicate(article_data[1].hash, existing_text_hashes)
             saved == save_article(article_data, disk, outcome)
         IN  IF is_new
             THEN /\ disk' = saved.disk
                  /\ existing_text_hashes' =
                         HashesAfterSave(existing_text_hashes,
                                         article_data[1].hash, saved.raised)
                  /\ successful_articles' =
                         IF saved.raised THEN successful_articles
                         ELSE successful_articles + 1
                  /\ save_calls' =
                         Append(save_calls, [hash |-> article_data[1].hash,
                                             raised |-> saved.raised])
                  /\ persisted' =
                         IF saved.raised THEN persisted
                         ELSE persisted \cup {<<run, article_data[1].text>>}
                  /\ pc' = AfterIteration(article_data, saved.raised)
                  /\ last' = [ step |-> "iteration", ok |-> TRUE,
                               hash |-> article_data[1].hash,
                               text |-> article_data[1].text,
                               was_known |-> FALSE, save_called |-> TRUE,
                               save_raised |-> saved.raised,
                               changed |-> Changed ]
             ELSE /\ UNCHANGED <<disk, existing_text_hashes,
                                 successful_articles, save_calls, persisted>>
                  /\ pc' = AfterIteration(article_data, FALSE)
                  /\ last' = IF article_data = <<>>
                             THEN [NoIteration EXCEPT !.step = "iteration",
                                                      !.changed = Changed]
                             ELSE [ step |-> "iteration", ok |-> TRUE,
                                    hash |-> article_data[1].hash,
                                    text |-> article_data[1].text,
                                    was_known |-> TRUE, save_called |-> FALSE,
                                    save_raised |-> FALSE,
                                    changed |-> Changed ]
    /\ idx' = idx + 1
    /\ UNCHANGED <<pending, globbed, n_links, run, seed_added, seed_logged>>
    /\ UNCHANGED <<avars, lvars, evars>>

\* The loop has run over every link: main prints the summary and returns.
Finish ==
    /\ pc = "crawl"
    /\ idx > n_links
    /\ pc' = "done"
    /\ UNCHANGED <<disk, existing_text_hashes, pending, globbed, n_links, idx,
                   successful_articles, run, seed_added, seed_logged,
                   save_calls, last, persisted>>
    /\ UNCHANGED <<avars, lvars, evars>>

\* The program is run again over the directory the earlier runs left.
NextRun ==
    /\ pc \in {"done", "crashed"}
    /\ run < MaxRuns
    /\ run' = run + 1
    /\ StartRun(disk)
    /\ UNCHANGED <<disk, persisted>>
    /\ UNCHANGED <<avars, lvars, evars>>

----------------------------------------------------------------------------
(* The inputs of the author normaliser, the link filter and the field      *)
(* extractor.                                                              *)

MaxTokens == 5     \* a byline is made of at most MaxTokens tokens
MaxCaseTokens == 3 \* a byline of other spellings is made of at most MaxCaseTokens tokens
MaxAnchors == 3    \* a document of the link filter holds at most MaxAnchors anchors

T_By    == <<"B","y"," ">>
T_Jane  == <<"J","a","n","e"," ","D","o","e">>
T_John  == <<"J","o","h","n"," ","S","m","i","t","h">>
T_Jr    == <<"J","r",".">>
T_Cnn   == <<"C","N","N">>
T_Comma == <<",", " ">>
T_And   == <<" ","a","n","d"," ">>

Tokens == {T_By, T_Jane, T_John, T_Jr, T_Cnn, T_Comma, T_And}

\* The same words in other spellings: the conjunction in upper case and
\* capitalised, the ampersand, the attribution token in lower case.
T_AndUpper == <<" ","A","N","D"," ">>
T_AndTitle == <<" ","A","n","d"," ">>
T_Amp      == <<" ","&"," ">>
T_CnnLower == <<"c","n","n">>

CaseTokens ==
    {T_Jane, T_John, T_Jr, T_Comma, T_AndUpper, T_AndTitle, T_Amp, T_CnnLower}

RECURSIVE Flatten(_)
Flatten(ts) == IF ts = <<>> THEN <<>> ELSE Head(ts) \o Flatten(Tail(ts))

\* The bylines of test_scrape_cnn_lite.py.
B_Suffixes == Flatten(<<T_By, T_Jane, T_And, T_John, T_Comma, T_Jr>>)
B_LastFirst == <<"S","m","i","t","h",","," ","J","o","h","n">>
B_CnnSuffix ==
    Flatten(<<T_By, T_Jane, T_Comma, T_Cnn, T_And, T_John, T_Comma, T_Cnn>>)

Bylines ==
    { Flatten(ts) : ts \in UNION { [1..n -> Tokens] : n \in 0..MaxTokens } }
    \cup { Flatten(ts) :
             ts \in UNION { [1..n -> CaseTokens] : n \in 0..MaxCaseTokens } }
    \cup {B_Suffixes, B_LastFirst, B_CnnSuffix}

U_Story    == <<"https:", "/", "/", "www.cnn.com", "/", "world", "/", "story">>
U_Sample   == <<"https:", "/", "/", "lite.cnn.com", "/", "sample">>

Anchor(href, text) == [has_href |-> TRUE, href |-> href, text |-> text]

X_Home  == <<"H","o","m","e">>
X_Story == <<" ","S","t","o","r","y"," ">>

\* The anchors of test_scrape_cnn_lite.py, and: a block-list URL with a
\* slash added and with its slash removed, over http, relative to the
\* scheme and relative to the host; an empty href; an anchor without href.
Anchors ==
    { Anchor(U_Home, X_Home),
      Anchor(U_Terms, X_Home),
      Anchor(U_Privacy, <<>>),
      Anchor(U_AdChoice, X_Home),
      Anchor(U_Story, X_Story),
      Anchor(U_Terms \o <<"/">>, X_Home),
      Anchor(SubSeq(U_Home, 1, 4), X_Home),
      Anchor(<<"http:">> \o Tail(U_Home), X_Home),
      Anchor(<<"/", "/", "www.cnn.com", "/", "privacy">>, X_Home),
      Anchor(<<"/", "terms">>, X_Story),
      Anchor(<<>>, X_Story),
      [has_href |-> FALSE, href |-> <<>>, text |-> X_Story] }

A_Test ==
    << Anchor(U_Home, X_Home), Anchor(U_Terms, X_Home), Anchor(U_Privacy, <<>>),
       Anchor(U_AdChoice, X_Home), Anchor(U_Story, X_Story) >>

AnchorLists ==
    UNION { [1..n -> Anchors] : n \in 0..MaxAnchors } \cup {A_Test}

\* The documents of the field extractor: every choice of what the title
\* selectors find, of the <time> element, of the byline, of the paragraphs
\* under <article> and under <main>, of a paragraph outside both, and of
\* the anchors.
TitleChoices ==
    { <<NoElem, NoElem, NoElem, NoElem>>,
      <<TitleElem(S_Title), TitleElem(S_Other), NoElem, NoElem>>,
      <<NoElem, TitleElem(S_Other), NoElem, NoElem>>,
      <<TitleElem(<<" ">>), TitleElem(S_Other), NoElem, TitleElem(S_Title)>>,
      <<NoElem, NoElem, TitleElem(S_Title), TitleElem(S_Other)>> }

DateChoices ==
    { <<NoDateElem, NoDateElem, NoDateElem, NoDateElem>>,
      <<[found |-> TRUE, datetime |-> ThenStamp, text |-> S_Other],
        NoDateElem, NoDateElem, NoDateElem>> }

BylineChoices == { <<>>, <<B_Jane>>, <<B_Suffixes, B_Jane>> }

ArticleChoices ==
    { NoTextElem, TextElem(<<>>), TextElem(<<P_One>>), TextElem(<<<<" ">>>>),
      TextElem(<<P_One, <<>>, P_Two>>) }

MainChoices == { NoTextElem, TextElem(<<P_Two>>) }

Documents ==
    { [ title_elems  |-> t,
        date_elems   |-> d,
        author_elems |-> <<b, b, <<>>, <<>>>>,
        text_elems   |-> <<a, NoTextElem, NoTextElem, NoTextElem, m>>,
        paragraphs   |-> a.paragraphs \o m.paragraphs \o loose,
        anchors      |-> l ] :
      t \in TitleChoices, d \in DateChoices, b \in BylineChoices,
      a \in ArticleChoices, m \in MainChoices,
      loose \in {<<>>, <<P_Two>>, <<DEFAULT_TEXT>>}, l \in {<<>>, A_Test} }

Requests ==
    { [url |-> u, response |-> r, now |-> n] :
      u \in {U_Sample, ArticleUrls[1]},
      r \in {Failed} \cup { Fetched(d) : d \in Documents },
      n \in {NowStamp} }

----------------------------------------------------------------------------
(* The specifications.                                                     *)

AInit ==
    /\ author_text \in Bylines
    /\ authors = <<>>
    /\ cleaned_authors = <<>>
    /\ apc = "input"

AIdle ==
    /\ author_text = <<>>
    /\ authors = <<>>
    /\ cleaned_authors = <<>>
    /\ apc = "idle"

LInit ==
    /\ a_tags \in AnchorLists
    /\ link_base \in {U_Sample, U_Story}
    /\ links = <<>>
    /\ lpc = "input"

LIdle ==
    /\ a_tags = <<>>
    /\ link_base = U_Sample
    /\ links = <<>>
    /\ lpc = "idle"

EInit ==
    /\ request \in Requests
    /\ extracted = <<>>
    /\ epc = "input"

EIdle ==
    /\ request = [url |-> U_Sample, response |-> Failed, now |-> NowStamp]
    /\ extracted = <<>>
    /\ epc = "idle"

CInit == MainInit(CrawlDisks, "seed")
SInit == MainInit(SeedDisks, "seed")
CIdle == MainInit({[f \in FileNames |-> NoFile]}, "idle")

\* The call split_author_text(author_text).
SplitAuthorText ==
    /\ apc = "input"
    /\ authors' = RawAuthors(author_text)
    /\ cleaned_authors' = split_author_text(author_text)
    /\ apc' = "done"
    /\ UNCHANGED <<author_text, lvars, evars, cvars>>

\* The call extract_article_links(soup, link_base).
ExtractLinks ==
    /\ lpc = "input"
    /\ links' = extract_article_links(a_tags, link_base)
    /\ lpc' = "done"
    /\ UNCHANGED <<a_tags, link_base, avars, evars, cvars>>

\* The call extract_article_data(article_url, session).
ExtractArticle ==
    /\ epc = "input"
    /\ extracted' =
           extract_article_data(request.url, request.response, request.now)
    /\ epc' = "done"
    /\ UNCHANGED <<request, avars, lvars, cvars>>

\* load_existing_text_hashes alone.
SNext ==
    \/ SeedFile
    \/ SeedReturn

\* main, run after run.
CNext ==
    \/ SeedFile
    \/ SeedReturn
    \/ Homepage
    \/ Iteration
    \/ Finish
    \/ NextRun

\* Each specification runs one operation; the state of the others is idle.
AuthorInit == AInit /\ LIdle /\ EIdle /\ CIdle
LinkInit == LInit /\ AIdle /\ EIdle /\ CIdle
ExtractInit == EInit /\ AIdle /\ LIdle /\ CIdle
SeedInit == SInit /\ AIdle /\ LIdle /\ EIdle
CrawlInit == CInit /\ AIdle /\ LIdle /\ EIdle

AuthorSpec == AuthorInit /\ [][SplitAuthorText]_vars
LinkSpec == LinkInit /\ [][ExtractLinks]_vars
ExtractSpec == ExtractInit /\ [][ExtractArticle]_vars
SeedSpec == SeedInit /\ [][SNext]_vars
CrawlSpec == CrawlInit /\ [][CNext]_vars

\* The interpreter runs main to its end: a pass of a loop that can be
\* taken is taken.
FairCrawlSpec ==
    /\ CrawlSpec
    /\ WF_vars(SeedFile) /\ WF_vars(SeedReturn) /\ WF_vars(Homepage)
    /\ WF_vars(Iteration) /\ WF_vars(Finish)

----------------------------------------------------------------------------
(* The crawl loop and the dedup index.                                     *)

\* A step of the crawl is a pass of the loop of main.
IsIteration == idx' = idx + 1

SavedHashes == { save_calls[i].hash : i \in { k \in DOMAIN save_calls : ~save_calls[k].raised } }
SeededFiles == { f \in FileNames : seed_added[f] # <<>> }
SeededHashes == { seed_added[f][1] : f \in SeededFiles }

\* C1: a pass of the loop over an article whose hash is in the dedup index
\* does not call save_article and leaves the index and the directory as
\* they are.
C1_DuplicateIsSkipped ==
    [][ (IsIteration /\ last'.ok /\ last'.hash \in existing_text_hashes)
          => /\ ~last'.save_called
             /\ save_calls' = save_calls
             /\ existing_text_hashes' = existing_text_hashes
             /\ disk' = disk ]_vars

C1_Witness ==
    /\ last.step = "iteration" /\ last.ok
    /\ ~last.save_called
    /\ last.hash \in existing_text_hashes

\* C2, as claimed: an article whose hash is not in the index is handed to
\* save_article, a save that returned has its hash in the index, and no two
\* calls of save_article of a run are for the same hash.
C2_SaveCalledOncePerHash ==
    /\ (last.ok /\ ~last.save_called) => last.hash \in existing_text_hashes
    /\ \A i \in DOMAIN save_calls :
           ~save_calls[i].raised => save_calls[i].hash \in existing_text_hashes
    /\ \A i, j \in DOMAIN save_calls :
           i < j => save_calls[i].hash # save_calls[j].hash

\* C2, amended: an article whose hash is not in the index is handed to
\* save_article, a save that returned has its hash in the index, and a call
\* of save_article for a hash is followed in the run by another call for
\* the same hash only if it raised.
C2_SaveReturnsOncePerHash ==
    /\ (last.ok /\ ~last.save_called) => last.hash \in existing_text_hashes
    /\ \A i \in DOMAIN save_calls :
           ~save_calls[i].raised => save_calls[i].hash \in existing_text_hashes
    /\ \A i, j \in DOMAIN save_calls :
           (i < j /\ save_calls[i].hash = save_calls[j].hash) => save_calls[i].raised

\* An article is saved, and a later article of the run with the same text
\* is skipped.
C2_Witness ==
    /\ Len(save_calls) = 1 /\ ~save_calls[1].raised
    /\ last.ok /\ ~last.save_called
    /\ last.hash = save_calls[1].hash

\* C3: every hash of the index was seeded from a record that is on disk or
\* is the hash of an article that save_article has written in this run; a
\* save that raised leaves the hash of its article out of the index, and
\* main goes on with the loop.
C3_IndexImpliesPersisted ==
    /\ existing_text_hashes \subseteq SeededHashes \cup SavedHashes
    /\ \A f \in SeededFiles :
           LoadRecord(disk[f]) = [effect |-> "add", hash |-> seed_added[f][1]]
    /\ \A h \in SavedHashes :
           /\ disk[FileName(h)].kind = "object"
           /\ disk[FileName(h)].hash = h
    /\ last.save_raised =>
           /\ last.hash \notin existing_text_hashes
           /\ pc \in {"crawl", "done"}

C3_Witness ==
    /\ last.save_raised
    /\ pc = "crawl" /\ idx <= n_links
    /\ existing_text_hashes # {}

\* C4: the record of an article that save_article has written holds its
\* hash and a list of authors; in a later run whose seeding has returned
\* the index holds that hash, added for that record, and an article with
\* that text is not handed to save_article; no text is saved in two runs.
C4_SavedIsDuplicateInLaterRuns ==
    /\ \A p \in persisted :
           LET h == get_article_hash(p[2])
               f == disk[FileName(h)]
           IN  /\ f.kind = "object"
               /\ f.hash_tag = "str" /\ f.hash = h
               /\ f.authors_tag = "list"
               /\ f.text = p[2]
               /\ (p[1] < run /\ pc \in {"home", "crawl", "done"}) =>
                      /\ h \in existing_text_hashes
                      /\ seed_added[FileName(h)] = <<h>>
    /\ (last.ok /\ \E p \in persisted : p[1] < run /\ p[2] = last.text)
           => ~last.save_called
    /\ \A p, q \in persisted : p[2] = q[2] => p[1] = q[1]

C4_Witness ==
    /\ run = 2
    /\ last.ok /\ ~last.save_called
    /\ <<1, last.text>> \in persisted

\* C7: a pass of the loop whose fetch failed changes neither the directory
\* nor the index and calls no save_article; and a
\* crawl that has started ends with the loop having passed over every one
\* of the n_links links.
C7_FailedFetchIsSkipped ==
    /\ [](pc \in {"crawl", "done"} /\ last.step = "iteration" /\ ~last.ok
             => ~last.changed /\ ~last.save_called)
    /\ (pc = "crawl") ~> (pc = "done" /\ idx = n_links + 1)

\* The directory was empty, the fetch of the first link failed (no call of
\* save_article) and the second link was saved.
C7_Witness ==
    /\ pc = "done" /\ n_links = 2 /\ idx = 3
    /\ globbed = {}
    /\ last.save_called /\ ~last.save_raised
    /\ Len(save_calls) = 1

----------------------------------------------------------------------------
(* The seeding of the dedup index.                                         *)

\* The files the loop of load_existing_text_hashes has passed over.
SeedRead == globbed \ pending

\* The hash recomputed from the stored text: data.get('text', '').
RecomputedHash(data) ==
    get_article_hash(IF data.text_tag = "absent" THEN <<>> ELSE data.text)

\* C5, as claimed: while the seeding runs and when it has returned, a
\* record read that has a hash field and a list of authors has added its
\* stored hash and nothing else, a record read that has no authors field
\* has added the hash of its text and nothing else, and when it has
\* returned every file that holds an object has added one hash.
C5_StoredHashWheneverPresent ==
    pc \in {"seed", "home"} =>
        /\ \A f \in SeedRead :
               disk[f].kind = "object" =>
                   /\ (disk[f].hash_tag # "absent" /\ disk[f].authors_tag = "list")
                          => seed_added[f] = <<disk[f].hash>>
                   /\ disk[f].authors_tag = "absent"
                          => seed_added[f] = <<RecomputedHash(disk[f])>>
        /\ pc = "home" =>
               \A f \in globbed :
                   disk[f].kind = "object" => Len(seed_added[f]) = 1

\* C5, amended: the stored hash is added for a record whose hash field is a
\* non-empty string and whose authors field is not null; for every other
\* record read (no hash field or an empty one, no authors field or null)
\* the hash of its text is added; either way nothing else is added for the
\* record, and when the seeding has returned the index holds the one hash
\* of each file that holds an object and nothing else.
C5_StoredHashWhenNonEmpty ==
    pc \in {"seed", "home"} =>
        /\ \A f \in SeedRead :
               disk[f].kind = "object" =>
                   IF disk[f].hash_tag = "str" /\ disk[f].authors_tag = "list"
                   THEN seed_added[f] = <<disk[f].hash>>
                   ELSE seed_added[f] = <<RecomputedHash(disk[f])>>
        /\ pc = "home" =>
               /\ \A f \in globbed :
                      IF disk[f].kind = "object" THEN Len(seed_added[f]) = 1
                      ELSE seed_added[f] = <<>>
               /\ existing_text_hashes = SeededHashes

\* The seeding has returned over a record that stores its hash and a
\* legacy record.
C5_Witness ==
    /\ pc = "home"
    /\ disk[LegacyName].kind = "object" /\ disk[LegacyName].authors_tag = "absent"
    /\ disk[LegacyName].hash_tag = "str"
    /\ seed_added[LegacyName] = <<get_article_hash(P_One)>>
    /\ seed_added[StoredName] = <<StoredHash>>

\* C6, as claimed: the seeding never ends with an exception, and when it
\* has returned it has logged every file that it could not use and the
\* index holds the hashes of all the others.
C6_SeedingSurvivesAnyRecord ==
    /\ pc # "crashed"
    /\ pc = "home" =>
           /\ existing_text_hashes = SeededHashes
           /\ \A f \in globbed : f \in seed_logged \/ seed_added[f] # <<>>

----------------------------------------------------------------------------
(* The field extractor, the link filter and the author normaliser.         *)

\* C8: the hash of a returned article is the hash of its text, its text is
\* the body found in the document or, when none is found, DEFAULT_TEXT.
C8_HashIsHashOfText ==
    (epc = "done" /\ extracted # <<>>) =>
        LET body == BodyText(request.response.doc)
        IN  /\ extracted[1].hash = get_article_hash(extracted[1].text)
            /\ extracted[1].text # <<>>
            /\ body # <<>> => extracted[1].text = body
            /\ body = <<>> =>
                   /\ extracted[1].text = DEFAULT_TEXT
                   /\ extracted[1].hash = get_article_hash(DEFAULT_TEXT)

\* An article with a title, authors and links, and no body.
C8_Witness ==
    /\ epc = "done" /\ extracted # <<>>
    /\ BodyText(request.response.doc) = <<>>
    /\ extracted[1].title = S_Title
    /\ extracted[1].authors # <<>>
    /\ extracted[1].links # <<>>
    /\ extracted[1].hash = get_article_hash(DEFAULT_TEXT)

\* The block-list URLs without their trailing slash.
BlockedUrls ==
    { <<"https:", "/", "/", "www.cnn.com">>,
      <<"https:", "/", "/", "www.cnn.com", "/", "terms">>,
      <<"https:", "/", "/", "www.cnn.com", "/", "privacy">>,
      <<"https:", "/", "/", "www.cnn.com", "/", "ad-choices">> }

\* url is a block-list URL followed by slashes only.
IsBlockedUrl(url) ==
    \E b \in BlockedUrls :
        /\ Len(url) >= Len(b)
        /\ SubSeq(url, 1, Len(b)) = b
        /\ \A i \in (Len(b) + 1)..Len(url) : url[i] = "/"

\* The positions of the anchors that the claim keeps.
KeptAnchors ==
    { i \in DOMAIN a_tags :
        a_tags[i].has_href /\ ~IsBlockedUrl(urljoin(link_base, a_tags[i].href)) }

\* C9: the links returned are the anchors with an href whose resolved URL
\* is no block-list URL once its trailing slashes are stripped, each as
\* its resolved URL and its trimmed text, in document order, repeats kept.
C9_LinksAreUnblockedAnchors ==
    lpc = "done" =>
        /\ Len(links) = Cardinality(KeptAnchors)
        /\ \A i \in KeptAnchors :
               links[Cardinality({ j \in KeptAnchors : j <= i })] =
                   [ url |-> urljoin(link_base, a_tags[i].href),
                     text |-> Strip(a_tags[i].text) ]

C9_Witness ==
    /\ lpc = "done"
    /\ a_tags = A_Test
    /\ links = << [url |-> U_Story, text |-> <<"S","t","o","r","y">>] >>

\* entry, lower-cased, is a suffix of AUTHOR_SUFFIXES followed by periods only.
IsSuffixToken(entry) ==
    \E suffix \in AUTHOR_SUFFIXES :
        /\ Len(entry) >= Len(suffix)
        /\ SubSeq(StrLower(entry), 1, Len(suffix)) = suffix
        /\ \A i \in (Len(suffix) + 1)..Len(entry) : entry[i] = "."

\* The suffix tokens that follow position k - 1 of entries, each after ", ".
RECURSIVE SuffixRun(_, _)
SuffixRun(entries, k) ==
    IF k <= Len(entries) /\ IsSuffixToken(entries[k])
    THEN <<",", " ">> \o entries[k] \o SuffixRun(entries, k + 1)
    ELSE <<>>

\* The names of one segment: one for its first component and for every
\* component that is no suffix token, each with the suffix tokens after it.
SegmentNames(entries) ==
    LET starts == { i \in DOMAIN entries : i = 1 \/ ~IsSuffixToken(entries[i]) }
        nth(n) == CHOOSE i \in starts : Cardinality({ j \in starts : j <= i }) = n
    IN  [ n \in 1..Cardinality(starts) |->
              entries[nth(n)] \o SuffixRun(entries, nth(n) + 1) ]

RECURSIVE SegmentsNames(_)
SegmentsNames(segments) ==
    IF segments = <<>> THEN <<>>
    ELSE SegmentNames(CommaParts(Head(segments))) \o SegmentsNames(Tail(segments))

\* The conjunction-separated segments of a byline.
Segments(text) == SplitConjunction(Strip(StripByPrefix(text)))

\* C10: for a byline that is not one segment of two components, the names
\* emitted are those of its segments in order, a suffix token joined to
\* the name before it by a comma; "By Jane Doe and John Smith, Jr." yields
\* "Jane Doe" and "John Smith, Jr.".
C10_SuffixesJoinTheNameBefore ==
    apc = "done" =>
        /\ ~(Len(Segments(author_text)) = 1
             /\ Len(CommaParts(Segments(author_text)[1])) = 2)
               => authors = SegmentsNames(Segments(author_text))
        /\ author_text = B_Suffixes =>
               cleaned_authors = <<T_Jane, T_John \o <<",", " ">> \o T_Jr>>

C10_Witness ==
    /\ apc = "done"
    /\ author_text = B_Suffixes
    /\ authors = <<T_Jane, T_John \o <<",", " ">> \o T_Jr>>
    /\ cleaned_authors = authors

----------------------------------------------------------------------------
(* The author normaliser: last-first names, the attribution suffix,        *)
(* idempotence, the conjunctions.                                          *)

\* The conjunction pattern read in any case: "and", "And", "AND" and "&"
\* between whitespace.  The index after the match at i, 0 without a match.
ConjunctionEndAnyCase(s, i) ==
    IF ~(i <= Len(s) /\ s[i] \in Whitespace) THEN 0
    ELSE LET j == SkipSpace(s, i)
             k == IF j + 2 <= Len(s)
                     /\ StrLower(SubSeq(s, j, j + 2)) = <<"a","n","d">>
                  THEN j + 3
                  ELSE IF j <= Len(s) /\ s[j] = "&" THEN j + 1
                  ELSE 0
         IN  IF k # 0 /\ k <= Len(s) /\ s[k] \in Whitespace
             THEN SkipSpace(s, k)
             ELSE 0

RECURSIVE SplitAnyCaseFrom(_, _, _)
SplitAnyCaseFrom(s, start, i) ==
    IF i > Len(s) THEN <<SubSeq(s, start, Len(s))>>
    ELSE IF ConjunctionEndAnyCase(s, i) # 0
    THEN <<SubSeq(s, start, i - 1)>>
         \o SplitAnyCaseFrom(s, ConjunctionEndAnyCase(s, i),
                             ConjunctionEndAnyCase(s, i))
    ELSE SplitAnyCaseFrom(s, start, i + 1)

\* The segments of a byline between conjunctions of any case.
SegmentsAnyCase(text) == SplitAnyCaseFrom(Strip(StripByPrefix(text)), 1, 1)

\* The byline is one segment of exactly two comma components.
IsLastFirst(text) ==
    /\ Len(SegmentsAnyCase(text)) = 1
    /\ Len(CommaParts(SegmentsAnyCase(text)[1])) = 2

LastFirstA(text) == CommaParts(SegmentsAnyCase(text)[1])[1]
LastFirstB(text) == CommaParts(SegmentsAnyCase(text)[1])[2]
LastFirstName(text) == LastFirstA(text) \o <<",", " ">> \o LastFirstB(text)

\* C11, as stated: a byline of one segment, without a conjunction and with
\* exactly two comma components A and B, yields the single author "A, B".
C11_LastFirstIsReturnedWhole ==
    (apc = "done" /\ IsLastFirst(author_text))
        => cleaned_authors = <<LastFirstName(author_text)>>

\* C11, amended: such a byline emits the one name "A, B" and is never
\* split in two; the name returned is "A, B" unless B is the attribution
\* token in any case, and then it is A alone, or nothing when A is the
\* token too.  "Smith, John" yields "Smith, John".
C11_LastFirstIsOneName ==
    (apc = "done" /\ IsLastFirst(author_text))
        => /\ authors = <<LastFirstName(author_text)>>
           /\ Len(cleaned_authors) <= 1
           /\ cleaned_authors =
                  IF StrUpper(LastFirstB(author_text)) # <<"C","N","N">>
                  THEN <<LastFirstName(author_text)>>
                  ELSE IF StrUpper(LastFirstA(author_text)) # <<"C","N","N">>
                  THEN <<LastFirstA(author_text)>>
                  ELSE <<>>
           /\ author_text = B_LastFirst => cleaned_authors = <<B_LastFirst>>

C11_Witness ==
    /\ apc = "done"
    /\ author_text = B_LastFirst
    /\ IsLastFirst(author_text)
    /\ authors = <<B_LastFirst>>
    /\ cleaned_authors = <<B_LastFirst>>

\* name ends with a comma, optional whitespace and the attribution token.
EndsWithCnn(name) ==
    \E i \in 1..Len(name) :
        /\ name[i] = ","
        /\ StrUpper(Strip(SubSeq(name, i + 1, Len(name)))) = <<"C","N","N">>

\* C12: no name returned is empty, is the attribution token in any case,
\* or ends with ", CNN"; "By Jane Doe, CNN and John Smith, CNN" yields
\* "Jane Doe" and "John Smith".
C12_NoAttributionInNames ==
    apc = "done" =>
        /\ \A i \in DOMAIN cleaned_authors :
               /\ cleaned_authors[i] # <<>>
               /\ StrUpper(cleaned_authors[i]) # <<"C","N","N">>
               /\ ~EndsWithCnn(cleaned_authors[i])
        /\ author_text = B_CnnSuffix => cleaned_authors = <<T_Jane, T_John>>

C12_Witness ==
    /\ apc = "done"
    /\ author_text = B_CnnSuffix
    /\ authors = <<T_Jane, T_Cnn, T_John, T_Cnn>>
    /\ cleaned_authors = <<T_Jane, T_John>>

\* C13: every name returned, normalised again, yields itself and nothing
\* else.
C13_NormalizedNameIsFixed ==
    apc = "done" =>
        \A i \in DOMAIN cleaned_authors :
            split_author_text(cleaned_authors[i]) = <<cleaned_authors[i]>>

\* C16: the byline is split at the conjunctions of any case, and a
\* conjunction is recorded whenever more than one segment results: the
\* names emitted are those of the segments so found.
C16_ConjunctionInAnyCaseSplits ==
    apc = "done" =>
        authors = PartsAuthors(SegmentsAnyCase(author_text),
                               Len(SegmentsAnyCase(author_text)) > 1,
                               Len(SegmentsAnyCase(author_text)))

----------------------------------------------------------------------------
(* The field extractor: the body and the title.                            *)

\* The text of the first container that holds a paragraph with text.
RECURSIVE QualifyingText(_)
QualifyingText(elems) ==
    IF elems = <<>> THEN <<>>
    ELSE IF Head(elems).found /\ JoinParagraphs(Head(elems).paragraphs) # <<>>
    THEN JoinParagraphs(Head(elems).paragraphs)
    ELSE QualifyingText(Tail(elems))

\* The trimmed text of the first title element that has text.
RECURSIVE QualifyingTitle(_)
QualifyingTitle(elems) ==
    IF elems = <<>> THEN <<>>
    ELSE IF Head(elems).found /\ Strip(Head(elems).text) # <<>>
    THEN Strip(Head(elems).text)
    ELSE QualifyingTitle(Tail(elems))

\* C14: the body is the text of the first container, in the selectors'
\* order, that holds a paragraph with text; a container without one does
\* not end the search.  Without such a container the body is the join of
\* all paragraphs of the document, and "No text found" if that is empty.
C14_BodyIsFirstContainerWithText ==
    (epc = "done" /\ request.response.ok) =>
        /\ extracted # <<>>
        /\ extracted[1].text =
               LET doc == request.response.doc
               IN  IF QualifyingText(doc.text_elems) # <<>>
                   THEN QualifyingText(doc.text_elems)
                   ELSE IF JoinParagraphs(doc.paragraphs) # <<>>
                   THEN JoinParagraphs(doc.paragraphs)
                   ELSE DEFAULT_TEXT

\* C15: the title is the trimmed text of the first title selector, in
\* order, whose element has text; an element without text does not end the
\* search, and "No title found" is the title only when no selector's
\* element has text.
C15_TitleIsFirstNonEmpty ==
    (epc = "done" /\ request.response.ok) =>
        /\ extracted # <<>>
        /\ extracted[1].title =
               LET doc == request.response.doc
               IN  IF QualifyingTitle(doc.title_elems) # <<>>
                   THEN QualifyingTitle(doc.title_elems)
                   ELSE DEFAULT_TITLE

====
